---- MODULE Spec2Model ----
(***************************************************************************)
(* AgreeTime schedule app: the event-approval workflow of                  *)
(* schedule/serializers.py (EventSerializer.create) and schedule/views.py  *)
(* (EventDetailView, ApproveEventView, the comment views) over the tables  *)
(* of schedule/models.py.                                                  *)
(*                                                                         *)
(* The database runs in Django's default autocommit mode: the source opens *)
(* no transaction (no transaction.atomic, no select_for_update), so every  *)
(* objects.create()/save()/delete() is committed when it returns.          *)
(*                                                                         *)
(* Spec         every request handler runs to completion (sequential       *)
(*              calls).                                                    *)
(* SpecConc     decide requests of two clients interleave at their         *)
(*              queries.                                                   *)
(* SpecCore     createEvent, decide and deleteEvent only.                  *)
(* SpecComment  the comment endpoints and the deletion of accounts.        *)
(* SpecPair     createEvent and decide on two events.                      *)
(* SpecTwice    repeated deleteEvent calls on one event.                   *)
(* SpecRace     a deleteEvent interleaved with a decide.                   *)
(***************************************************************************)
EXTENDS Integers, Sequences, FiniteSets, TLC

VARIABLES
    users,          \* User table: the ids of the accounts that exist
    events,         \* Event table: id -> [creator, status, start_time,
                    \*                     end_time]
    nextId,         \* next Event primary key (auto-increment, never reused)
    participants,   \* EventParticipant table: set of <<event, user>>
    approvers,      \* EventApprover table: <<event, approver>> -> row
    comments,       \* Comment table: set of [id, event, author]
    nextComment,    \* next Comment primary key
    notifications,  \* Notification table: set of [recipient, event, type]
    last,           \* the last request handled: [op, ev, code]
    procs,          \* SpecConc: the in-flight decide request of each client
    base,           \* SpecConc: the tables when the running batch began
    deletes         \* SpecTwice: event id -> deleteEvent calls answered 204

vars == <<users, events, nextId, participants, approvers, comments,
          nextComment, notifications, last, procs, base, deletes>>

tables == <<events, nextId, participants, approvers, comments, nextComment,
            notifications>>

----------------------------------------------------------------------------
(* Bounds *)

MaxLen == 2         \* longest participant_ids / approver_ids list
MaxTime == 2        \* instants: timezone.now(), start_time, end_time
MaxComments == 1    \* comments ever created in one behaviour

Users == {1, 2}
EventIds == {1}     \* primary keys the Event table hands out
PairIds == {1, 2}   \* the same in SpecPair, which creates two events
CommentIds == 1..MaxComments
Times == 1..MaxTime
Reasons == {"", "conflict"}
Decisions == {"approve", "reject", "other"}
Procs == {"p1", "p2"}

IdLists == UNION {[1..n -> Users] : n \in 0..MaxLen}

----------------------------------------------------------------------------
(* models.py *)

PENDING == "PENDING"
CONFIRMED == "CONFIRMED"
CANCELLED == "CANCELLED"
DELETED == "DELETED"
STATUS_CHOICES == {PENDING, CONFIRMED, CANCELLED, DELETED}

APPROVED == "APPROVED"
REJECTED == "REJECTED"
EXPIRED == "EXPIRED"
APPROVER_STATUS_CHOICES == {PENDING, APPROVED, REJECTED, EXPIRED}

EVENT_CREATED == "EVENT_CREATED"
APPROVAL_REQUEST == "APPROVAL_REQUEST"
APPROVAL_RESULT == "APPROVAL_RESULT"
EVENT_CANCELLED == "EVENT_CANCELLED"
TYPE_CHOICES ==
    {EVENT_CREATED, APPROVAL_REQUEST, APPROVAL_RESULT, EVENT_CANCELLED}

NoStatus == "ABSENT"    \* the request body carries no "status" field
NullTime == 0           \* decision_time IS NULL
NoUser == 0             \* creator IS NULL

\* Event.status: the value supplied by the serializer, else default=PENDING.
EventStatusField(st) == IF st = NoStatus THEN PENDING ELSE st

\* A fresh EventApprover row: status default PENDING, decision_time null,
\* rejection_reason blank.
NewApproverRow ==
    [status |-> PENDING, decision_time |-> NullTime, rejection_reason |-> ""]

Restrict(f, S) == [x \in S |-> f[x]]

\* Mutant: the participants' foreign key does not cascade.
KeepParticipants(ps, e) == ps

\* on_delete=CASCADE of the foreign keys to Event.
CascadeParticipants(ps, e) == {p \in ps : p[1] # e}
CascadeApprovers(as, e) == Restrict(as, {k \in DOMAIN as : k[1] # e})
\* Mutant: the comments' foreign key does not cascade.
KeepComments(cs, e) == cs

CascadeComments(cs, e) == {c \in cs : c.event # e}
CascadeNotifications(ns, e) == {n \in ns : n.event # e}

\* on_delete of the foreign keys to User: Event.creator is SET_NULL, the
\* other tables CASCADE.
SetNullCreator(ev, u) ==
    [e \in DOMAIN ev |->
        IF ev[e].creator = u THEN [ev[e] EXCEPT !.creator = NoUser] ELSE ev[e]]
CascadeUserParticipants(ps, u) == {p \in ps : p[2] # u}
CascadeUserApprovers(as, u) == Restrict(as, {k \in DOMAIN as : k[2] # u})
CascadeUserComments(cs, u) == {c \in cs : c.author # u}
CascadeUserNotifications(ns, u) == {n \in ns : n.recipient # u}

\* The account of user u is deleted (User.delete(): the schedule app has no
\* endpoint for it, the rows that point to the account follow on_delete).
DeleteUser(u) ==
    /\ u \in users
    /\ users' = users \ {u}
    /\ events' = SetNullCreator(events, u)
    /\ participants' = CascadeUserParticipants(participants, u)
    /\ approvers' = CascadeUserApprovers(approvers, u)
    /\ comments' = CascadeUserComments(comments, u)
    /\ notifications' = CascadeUserNotifications(notifications, u)
    /\ last' = [op |-> "userdel", ev |-> 0, code |-> 0]
    /\ UNCHANGED <<nextId, nextComment>>

----------------------------------------------------------------------------
(* serializers.py: EventSerializer.create *)

\* validated_data.pop("approver_ids", [])
ApproverIdsOf(given, aids) == IF given THEN aids ELSE <<>>

\* Mutant: the creator is not added to the participant ids.
WithoutCreator(pids, u) == pids

\* if user.id not in participant_ids: participant_ids.append(user.id)
WithCreator(pids, u) ==
    IF \E i \in 1..Len(pids) : pids[i] = u THEN pids ELSE Append(pids, u)

\* Index of the first element of ids that repeats an earlier one (0: none):
\* objects.create() raises IntegrityError there (unique_together).
FirstDup(ids) ==
    LET dups == {j \in 1..Len(ids) : \E i \in 1..(j - 1) : ids[i] = ids[j]}
    IN  IF dups = {} THEN 0 ELSE CHOOSE j \in dups : \A k \in dups : j <= k

\* The ids whose rows the loop "for id in ids: objects.create(...)" wrote.
RowsWritten(ids) ==
    LET k == FirstDup(ids)
    IN  {ids[i] : i \in 1..(IF k = 0 THEN Len(ids) ELSE k - 1)}

\* if len(participant_ids) > 1
NeedsApprovers(plist) == Len(plist) > 1

\* The response of create(): 500 an IntegrityError, 400 the
\* ValidationError, 201 created.
CreateCode(plist, aids) ==
    IF FirstDup(plist) # 0 THEN 500
    ELSE IF ~NeedsApprovers(plist) THEN 201
    ELSE IF aids = <<>> THEN 400
    ELSE IF FirstDup(aids) # 0 THEN 500
    ELSE 201

\* Mutant: approver rows are written whatever the number of participants.
ApproverRowsAnyCount(plist, aids) ==
    IF FirstDup(plist) = 0 /\ aids # <<>> THEN RowsWritten(aids) ELSE {}

\* The approver ids whose rows create() wrote.
ApproverRowsWritten(plist, aids) ==
    IF FirstDup(plist) = 0 /\ NeedsApprovers(plist) /\ aids # <<>>
    THEN RowsWritten(aids) ELSE {}

\* POST families/<id>/events by user u.
CreateEvent(u, pids, given, aidsIn, st, start, end) ==
    LET e == nextId
        aids == ApproverIdsOf(given, aidsIn)
        plist == WithCreator(pids, u)
        arows == ApproverRowsWritten(plist, aids)
    IN  /\ nextId \in PairIds
        /\ events' = [x \in DOMAIN events \cup {e} |->
                        IF x = e
                        THEN [creator |-> u, status |-> EventStatusField(st),
                              start_time |-> start, end_time |-> end]
                        ELSE events[x]]
        /\ nextId' = nextId + 1
        /\ participants' = participants \cup {<<e, uid>> : uid \in RowsWritten(plist)}
        /\ approvers' = [k \in DOMAIN approvers \cup {<<e, a>> : a \in arows} |->
                            IF k \in DOMAIN approvers THEN approvers[k]
                            ELSE NewApproverRow]
        /\ last' = [op |-> "create", ev |-> e, code |-> CreateCode(plist, aids)]
        /\ UNCHANGED <<comments, nextComment, notifications>>

\* PUT/PATCH events/<pk> with a "status" field: ModelSerializer.update sets
\* the validated fields on the row and saves it.
UpdateEvent(e, st) ==
    /\ IF e \in DOMAIN events
       THEN /\ events' = [events EXCEPT ![e].status = st]
            /\ last' = [op |-> "update", ev |-> e, code |-> 200]
       ELSE /\ UNCHANGED events
            /\ last' = [op |-> "update", ev |-> e, code |-> 404]
    /\ UNCHANGED <<nextId, participants, approvers, comments, nextComment,
                   notifications>>

----------------------------------------------------------------------------
(* views.py: EventDetailView.delete *)

\* Mutant: every delete only marks the event.
IsSoftDeleteAlways(status) == TRUE

\* if event.status == Event.CONFIRMED
IsSoftDelete(status) == status = CONFIRMED

\* Mutant: the soft delete marks the event DELETED.
MarkedDeleted(ev, e) == [ev EXCEPT ![e].status = DELETED]

\* event.status = Event.CANCELLED; event.save(update_fields=["status"])
SoftDeleted(ev, e) == [ev EXCEPT ![e].status = CANCELLED]

\* super().delete(): instance.delete() removes the row
HardDeleted(ev, e) == Restrict(ev, DOMAIN ev \ {e})

\* DELETE events/<pk>
DeleteEvent(e) ==
    IF e \notin DOMAIN events
    THEN /\ last' = [op |-> "delete", ev |-> e, code |-> 404]
         /\ UNCHANGED tables
    ELSE IF IsSoftDelete(events[e].status)
    THEN /\ events' = SoftDeleted(events, e)
         /\ last' = [op |-> "delete", ev |-> e, code |-> 204]
         /\ UNCHANGED <<nextId, participants, approvers, comments,
                        nextComment, notifications>>
    ELSE /\ events' = HardDeleted(events, e)
         /\ participants' = CascadeParticipants(participants, e)
         /\ approvers' = CascadeApprovers(approvers, e)
         /\ comments' = CascadeComments(comments, e)
         /\ notifications' = CascadeNotifications(notifications, e)
         /\ last' = [op |-> "delete", ev |-> e, code |-> 204]
         /\ UNCHANGED <<nextId, nextComment>>

----------------------------------------------------------------------------
(* views.py: ApproveEventView.post *)

\* Mutant: the lookup filters on the event alone.
ApproverQueryAnyUser(as, e, u) == {k \in DOMAIN as : k[1] = e}

\* EventApprover.objects.get(event_id=event_id, approver=user): the rows the
\* query matches (unique_together leaves at most one).
ApproverQuery(as, e, u) == {k \in DOMAIN as : k[1] = e /\ k[2] = u}

\* Mutant: only a rejection is final.
AlreadyRejected(row) == row.status = REJECTED

\* if approver.status != EventApprover.PENDING: "Already responded."
AlreadyResponded(row) == row.status # PENDING

\* decision_time = now; status APPROVED for "approve", else REJECTED with
\* the reason.
DecidedRow(row, d, r, t) ==
    [status |-> IF d = "approve" THEN APPROVED ELSE REJECTED,
     decision_time |-> t,
     rejection_reason |-> IF d = "approve" THEN row.rejection_reason ELSE r]

\* event.approvers.values_list("status", flat=True)
StatusesOf(as, e) == {as[k].status : k \in {x \in DOMAIN as : x[1] = e}}

\* Mutant: the all() test compares with Event.CONFIRMED.
VerdictWrongApproved(statuses) ==
    IF \A s \in statuses : s = CONFIRMED THEN CONFIRMED
    ELSE IF \E s \in statuses : s = REJECTED THEN CANCELLED
    ELSE NoStatus

\* Mutant: the any() test compares with Event.CANCELLED.
VerdictWrongRejected(statuses) ==
    IF \A s \in statuses : s = APPROVED THEN CONFIRMED
    ELSE IF \E s \in statuses : s = CANCELLED THEN CANCELLED
    ELSE NoStatus

\* if all(s == APPROVED ...): CONFIRMED; elif any(s == REJECTED ...):
\* CANCELLED; else event.status is not written (NoStatus).
Verdict(statuses) ==
    IF \A s \in statuses : s = APPROVED THEN CONFIRMED
    ELSE IF \E s \in statuses : s = REJECTED THEN CANCELLED
    ELSE NoStatus

\* Event.status after the check, cur before it.
OverallStatus(statuses, cur) ==
    IF Verdict(statuses) = NoStatus THEN cur ELSE Verdict(statuses)

\* Mutant: the decision is saved on every approver row of the event.
DecideResultEveryRow(ev, as, u, e, d, r, t) ==
    LET q == ApproverQuery(as, e, u)
        k == CHOOSE x \in q : TRUE
        as2 == [x \in DOMAIN as |->
                    IF x[1] = e THEN DecidedRow(as[x], d, r, t) ELSE as[x]]
    IN  IF q = {} THEN [events |-> ev, approvers |-> as, code |-> 403]
        ELSE IF AlreadyResponded(as[k])
        THEN [events |-> ev, approvers |-> as, code |-> 400]
        ELSE [events |-> [ev EXCEPT ![k[1]].status =
                            OverallStatus(StatusesOf(as2, k[1]), @)],
              approvers |-> as2,
              code |-> 200]

\* The whole handler on tables ev, as: the tables after it and its response
\* (403 not an approver, 400 already responded, 200 decided).
DecideResult(ev, as, u, e, d, r, t) ==
    LET q == ApproverQuery(as, e, u)
        k == CHOOSE x \in q : TRUE
        as2 == [as EXCEPT ![k] = DecidedRow(as[k], d, r, t)]
    IN  IF q = {} THEN [events |-> ev, approvers |-> as, code |-> 403]
        ELSE IF AlreadyResponded(as[k])
        THEN [events |-> ev, approvers |-> as, code |-> 400]
        ELSE [events |-> [ev EXCEPT ![k[1]].status =
                            OverallStatus(StatusesOf(as2, k[1]), @)],
              approvers |-> as2,
              code |-> 200]

\* POST events/<event_id>/approve by user u.
Decide(u, e, d, r, t) ==
    LET res == DecideResult(events, approvers, u, e, d, r, t)
    IN  /\ events' = res.events
        /\ approvers' = res.approvers
        /\ last' = [op |-> "decide", ev |-> e, code |-> res.code]
        /\ UNCHANGED <<nextId, participants, comments, nextComment,
                       notifications>>

----------------------------------------------------------------------------
(* views.py: EventCommentsListCreateView, CommentDeleteView *)

\* POST events/<event_id>/comments by user u: the foreign key to a missing
\* event raises IntegrityError.
CreateComment(u, e) ==
    /\ nextComment <= MaxComments
    /\ IF e \in DOMAIN events
       THEN /\ comments' = comments \cup
                    {[id |-> nextComment, event |-> e, author |-> u]}
            /\ nextComment' = nextComment + 1
            /\ last' = [op |-> "comment", ev |-> e, code |-> 201]
       ELSE /\ UNCHANGED <<comments, nextComment>>
            /\ last' = [op |-> "comment", ev |-> e, code |-> 500]
    /\ UNCHANGED <<events, nextId, participants, approvers, notifications>>

\* Mutant: only the author may delete a comment.
CommentForbiddenNotAuthor(u, c, ev) == u # c.author

\* request.user != comment.author and request.user != comment.event.creator
CommentForbidden(u, c, ev) == u # c.author /\ u # ev[c.event].creator

\* DELETE comments/<pk> by user u.
DeleteComment(u, id) ==
    LET q == {c \in comments : c.id = id}
        c == CHOOSE x \in q : TRUE
    IN  /\ IF q = {}
           THEN /\ UNCHANGED comments
                /\ last' = [op |-> "uncomment", ev |-> 0, code |-> 404]
           ELSE IF CommentForbidden(u, c, events)
           THEN /\ UNCHANGED comments
                /\ last' = [op |-> "uncomment", ev |-> c.event, code |-> 403]
           ELSE /\ comments' = comments \ {c}
                /\ last' = [op |-> "uncomment", ev |-> c.event, code |-> 204]
        /\ UNCHANGED <<events, nextId, participants, approvers, nextComment,
                       notifications>>

----------------------------------------------------------------------------
(* Sequential calls: every handler runs to completion. *)

IdleProc ==
    [pc |-> "idle", user |-> 0, ev |-> 0, d |-> "", r |-> "", t |-> NullTime,
     obj |-> NewApproverRow, verdict |-> NoStatus, seen |-> NoStatus,
     code |-> 0]

NoBatch == [events |-> <<>>, approvers |-> <<>>, overlap |-> FALSE]

Init ==
    /\ users = Users
    /\ events = <<>>
    /\ nextId = 1
    /\ participants = {}
    /\ approvers = <<>>
    /\ comments = {}
    /\ nextComment = 1
    /\ notifications = {}
    /\ last = [op |-> "none", ev |-> 0, code |-> 0]
    /\ procs = [p \in Procs |-> IdleProc]
    /\ base = NoBatch
    /\ deletes = [e \in PairIds |-> 0]

\* No handler reads start_time or end_time: Spec creates every event with
\* one pair of instants, SpecCore with every pair.
DoCreate ==
    \E u \in Users, pids \in IdLists, st \in STATUS_CHOICES \cup {NoStatus} :
        /\ nextId \in EventIds
        /\ \/ CreateEvent(u, pids, FALSE, <<>>, st, 1, MaxTime)
           \/ \E aids \in IdLists :
                CreateEvent(u, pids, TRUE, aids, st, 1, MaxTime)

DoUpdate == \E e \in EventIds, st \in STATUS_CHOICES : UpdateEvent(e, st)

DoDelete == \E e \in EventIds : DeleteEvent(e)

DoDecide ==
    \E u \in Users, e \in EventIds, d \in Decisions, r \in Reasons, t \in Times :
        Decide(u, e, d, r, t)

DoComment == \E u \in Users, e \in EventIds : CreateComment(u, e)

DoUncomment == \E u \in Users, id \in CommentIds : DeleteComment(u, id)

Next ==
    \/ DoCreate /\ UNCHANGED <<procs, base, users, deletes>>
    \/ DoUpdate /\ UNCHANGED <<procs, base, users, deletes>>
    \/ DoDelete /\ UNCHANGED <<procs, base, users, deletes>>
    \/ DoDecide /\ UNCHANGED <<procs, base, users, deletes>>
    \/ DoComment /\ UNCHANGED <<procs, base, users, deletes>>
    \/ DoUncomment /\ UNCHANGED <<procs, base, users, deletes>>

Spec == Init /\ [][Next]_vars

----------------------------------------------------------------------------
(* Concurrent decide requests: ApproveEventView.post split at its queries. *)
(* Each query is committed on its own (autocommit), so the requests of two *)
(* clients interleave between any two of them.  A batch is the requests    *)
(* handled between two moments at which no request is in flight.           *)

Quiescent == \A p \in Procs : procs[p].pc = "idle"
Running(p) == procs[p].pc \in {"save", "scan", "write", "fetched"}

\* The handler returns Response(..., status=code).
Respond(pr, code) == [pr EXCEPT !.pc = "done", !.code = code]

\* Lines 74-88: the request arrives, the approver row is fetched and checked
\* and the decision is set on the in-memory object.
BeginDecide(p, u, e, d, r, t) ==
    LET q == ApproverQuery(approvers, e, u)
        k == CHOOSE x \in q : TRUE
        pr == [IdleProc EXCEPT !.user = u, !.ev = e, !.d = d, !.r = r, !.t = t]
        code == IF q = {} THEN 403
                ELSE IF AlreadyResponded(approvers[k]) THEN 400 ELSE 0
    IN  /\ procs[p].pc = "idle"
        /\ base' = IF Quiescent
                   THEN [events |-> events, approvers |-> approvers,
                         overlap |-> FALSE]
                   ELSE [base EXCEPT !.overlap =
                            @ \/ \E o \in Procs \ {p} : Running(o)]
        /\ IF code # 0
           THEN /\ procs' = [procs EXCEPT ![p] = Respond(pr, code)]
                /\ last' = [op |-> "decide", ev |-> e, code |-> code]
           ELSE /\ procs' = [procs EXCEPT ![p] =
                        [pr EXCEPT !.pc = "save",
                                   !.obj = DecidedRow(approvers[k], d, r, t)]]
                /\ UNCHANGED last
        /\ UNCHANGED tables

\* Line 89, approver.save(): UPDATE of the row fetched, all its fields.
SavedApprover(as, pr) == [as EXCEPT ![<<pr.ev, pr.user>>] = pr.obj]

\* When the row is gone (the event was removed in between) the UPDATE
\* matches nothing and save() falls back to an INSERT, which the foreign key
\* to the removed event refuses: IntegrityError, nothing is written.
SaveApprover(p) ==
    /\ procs[p].pc = "save"
    /\ IF <<procs[p].ev, procs[p].user>> \in DOMAIN approvers
       THEN /\ approvers' = SavedApprover(approvers, procs[p])
            /\ procs' = [procs EXCEPT ![p].pc = "scan"]
            /\ UNCHANGED last
       ELSE /\ UNCHANGED approvers
            /\ procs' = [procs EXCEPT ![p] = Respond(@, 500)]
            /\ last' = [op |-> "decide", ev |-> procs[p].ev, code |-> 500]
    /\ UNCHANGED <<events, nextId, participants, comments, nextComment,
                   notifications, base>>

\* Mutant: the query reads the other rows as they were when the batch began
\* (a snapshot that misses the concurrent commit).
ScanSeenStale(as, pr) ==
    {as[<<pr.ev, pr.user>>].status} \cup
    {base.approvers[k].status :
        k \in {x \in DOMAIN base.approvers : x[1] = pr.ev /\ x[2] # pr.user}}

\* Lines 91-92: the statuses the query of this request returns: the rows of
\* the event as committed when it runs.
ScanSeen(as, pr) == StatusesOf(as, pr.ev)

\* Lines 91-98 up to the write: the event is fetched (approver.event raises
\* DoesNotExist when it was removed), the statuses are read and checked; the
\* handler returns when neither branch is taken.
ScanStatuses(p) ==
    LET v == Verdict(ScanSeen(approvers, procs[p]))
    IN  /\ procs[p].pc = "scan"
        /\ IF procs[p].ev \notin DOMAIN events
           THEN /\ procs' = [procs EXCEPT ![p] = Respond(@, 500)]
                /\ last' = [op |-> "decide", ev |-> procs[p].ev, code |-> 500]
           ELSE IF v = NoStatus
           THEN /\ procs' = [procs EXCEPT ![p] = Respond(@, 200)]
                /\ last' = [op |-> "decide", ev |-> procs[p].ev, code |-> 200]
           ELSE /\ procs' = [procs EXCEPT ![p].pc = "write", ![p].verdict = v]
                /\ UNCHANGED last
        /\ UNCHANGED <<tables, base>>

\* Lines 95/98, event.save(update_fields=["status"]), and the response; an
\* UPDATE that matches no row raises DatabaseError.
SaveEvent(p) ==
    /\ procs[p].pc = "write"
    /\ IF procs[p].ev \in DOMAIN events
       THEN /\ events' = [events EXCEPT ![procs[p].ev].status = procs[p].verdict]
            /\ procs' = [procs EXCEPT ![p] = Respond(@, 200)]
            /\ last' = [op |-> "decide", ev |-> procs[p].ev, code |-> 200]
       ELSE /\ UNCHANGED events
            /\ procs' = [procs EXCEPT ![p] = Respond(@, 500)]
            /\ last' = [op |-> "decide", ev |-> procs[p].ev, code |-> 500]
    /\ UNCHANGED <<nextId, participants, approvers, comments, nextComment,
                   notifications, base>>

\* EventDetailView.delete, line 59: get_object() fetches the event (404 when
\* there is none); the handler holds the status it read.
BeginDelete(p, e) ==
    /\ procs[p].pc = "idle"
    /\ base' = IF Quiescent
               THEN [events |-> events, approvers |-> approvers,
                     overlap |-> FALSE]
               ELSE [base EXCEPT !.overlap =
                        @ \/ \E o \in Procs \ {p} : Running(o)]
    /\ IF e \notin DOMAIN events
       THEN /\ procs' = [procs EXCEPT ![p] =
                    Respond([IdleProc EXCEPT !.ev = e], 404)]
            /\ last' = [op |-> "delete", ev |-> e, code |-> 404]
       ELSE /\ procs' = [procs EXCEPT ![p] =
                    [IdleProc EXCEPT !.pc = "fetched", !.ev = e,
                                     !.seen = events[e].status]]
            /\ UNCHANGED last
    /\ UNCHANGED tables

\* Lines 61-65 on the status read: the UPDATE of the status (DatabaseError
\* when it matches no row), or super().delete(): destroy() fetches the
\* event again (404) and removes it with the rows that cascade.
FinishDelete(p) ==
    LET e == procs[p].ev
        code == IF e \in DOMAIN events THEN 204
                ELSE IF IsSoftDelete(procs[p].seen) THEN 500 ELSE 404
    IN  /\ procs[p].pc = "fetched"
        /\ IF e \notin DOMAIN events
           THEN UNCHANGED <<events, participants, approvers, comments,
                            notifications>>
           ELSE IF IsSoftDelete(procs[p].seen)
           THEN /\ events' = SoftDeleted(events, e)
                /\ UNCHANGED <<participants, approvers, comments,
                               notifications>>
           ELSE /\ events' = HardDeleted(events, e)
                /\ participants' = CascadeParticipants(participants, e)
                /\ approvers' = CascadeApprovers(approvers, e)
                /\ comments' = CascadeComments(comments, e)
                /\ notifications' = CascadeNotifications(notifications, e)
        /\ procs' = [procs EXCEPT ![p] = Respond(@, code)]
        /\ last' = [op |-> "delete", ev |-> e, code |-> code]
        /\ UNCHANGED <<nextId, nextComment, base>>

\* Every request of the batch has been answered: the next batch may begin.
Retire ==
    /\ ~Quiescent
    /\ \A p \in Procs : procs[p].pc \in {"idle", "done"}
    /\ procs' = [p \in Procs |-> IdleProc]
    /\ base' = NoBatch
    /\ UNCHANGED <<tables, last>>

\* The requests SpecConc issues.
ConcDecisions == {"approve", "reject"}
ConcTime(p) == IF p = "p1" THEN 1 ELSE MaxTime

ConcCreate ==
    /\ Quiescent
    /\ nextId \in EventIds
    /\ \E u \in Users, pids \in IdLists, aids \in IdLists :
            CreateEvent(u, pids, TRUE, aids, NoStatus, 1, MaxTime)
    /\ UNCHANGED <<procs, base>>

ConcBegin ==
    \E p \in Procs, u \in Users, e \in EventIds, d \in ConcDecisions :
        BeginDecide(p, u, e, d, "conflict", ConcTime(p))

ConcSaveApprover == \E p \in Procs : SaveApprover(p)
ConcScan == \E p \in Procs : ScanStatuses(p)
ConcSaveEvent == \E p \in Procs : SaveEvent(p)

NextConc ==
    \/ ConcCreate /\ UNCHANGED <<users, deletes>>
    \/ ConcBegin /\ UNCHANGED <<users, deletes>>
    \/ ConcSaveApprover /\ UNCHANGED <<users, deletes>>
    \/ ConcScan /\ UNCHANGED <<users, deletes>>
    \/ ConcSaveEvent /\ UNCHANGED <<users, deletes>>
    \/ Retire /\ UNCHANGED <<users, deletes>>

SpecConc == Init /\ [][NextConc]_vars

----------------------------------------------------------------------------
(* SpecCore: sequential createEvent, decide and deleteEvent calls; the     *)
(* create request carries no "status" field and any pair of instants.      *)

CoreCreate ==
    \E u \in Users, pids \in IdLists, start \in Times, end \in Times :
        /\ nextId \in EventIds
        /\ \/ CreateEvent(u, pids, FALSE, <<>>, NoStatus, start, end)
           \/ \E aids \in IdLists :
                CreateEvent(u, pids, TRUE, aids, NoStatus, start, end)

NextCore ==
    \/ CoreCreate /\ UNCHANGED <<procs, base, users, deletes>>
    \/ DoDelete /\ UNCHANGED <<procs, base, users, deletes>>
    \/ DoDecide /\ UNCHANGED <<procs, base, users, deletes>>

SpecCore == Init /\ [][NextCore]_vars

----------------------------------------------------------------------------
(* SpecComment: comments on one-participant events, written and deleted by *)
(* three accounts, any of which may be deleted.                            *)

Accounts == {1, 2, 3}

InitComment ==
    /\ users = Accounts
    /\ events = <<>>
    /\ nextId = 1
    /\ participants = {}
    /\ approvers = <<>>
    /\ comments = {}
    /\ nextComment = 1
    /\ notifications = {}
    /\ last = [op |-> "none", ev |-> 0, code |-> 0]
    /\ procs = [p \in Procs |-> IdleProc]
    /\ base = NoBatch
    /\ deletes = [e \in PairIds |-> 0]

CommentCreate ==
    /\ nextId \in EventIds
    /\ \E u \in users : CreateEvent(u, <<>>, FALSE, <<>>, NoStatus, 1, MaxTime)
CommentWrite == \E u \in users, e \in EventIds : CreateComment(u, e)
CommentDelete == \E u \in users, id \in CommentIds : DeleteComment(u, id)
CommentUserGone == \E u \in users : DeleteUser(u)

NextComment ==
    \/ CommentCreate /\ UNCHANGED <<procs, base, users, deletes>>
    \/ CommentWrite /\ UNCHANGED <<procs, base, users, deletes>>
    \/ CommentDelete /\ UNCHANGED <<procs, base, users, deletes>>
    \/ CommentUserGone /\ UNCHANGED <<procs, base, deletes>>

SpecComment == InitComment /\ [][NextComment]_vars

----------------------------------------------------------------------------
(* SpecRace: client p1 sends decide requests, client p2 deleteEvent         *)
(* requests; the two handlers interleave at their queries.                 *)

RaceCreate ==
    /\ Quiescent
    /\ nextId \in EventIds
    /\ \E u \in Users, pids \in IdLists, aids \in IdLists :
            CreateEvent(u, pids, TRUE, aids, NoStatus, 1, MaxTime)
    /\ UNCHANGED <<procs, base>>

RaceDecide ==
    \E u \in Users, e \in EventIds, d \in ConcDecisions :
        BeginDecide("p1", u, e, d, "conflict", ConcTime("p1"))

RaceDelete == \E e \in EventIds : BeginDelete("p2", e)
RaceFinishDelete == FinishDelete("p2")

NextRace ==
    \/ RaceCreate /\ UNCHANGED <<users, deletes>>
    \/ RaceDecide /\ UNCHANGED <<users, deletes>>
    \/ ConcSaveApprover /\ UNCHANGED <<users, deletes>>
    \/ ConcScan /\ UNCHANGED <<users, deletes>>
    \/ ConcSaveEvent /\ UNCHANGED <<users, deletes>>
    \/ RaceDelete /\ UNCHANGED <<users, deletes>>
    \/ RaceFinishDelete /\ UNCHANGED <<users, deletes>>
    \/ Retire /\ UNCHANGED <<users, deletes>>

SpecRace == Init /\ [][NextRace]_vars

----------------------------------------------------------------------------
(* SpecTwice: createEvent, decide and deleteEvent, the deleteEvent calls    *)
(* answered 204 counted per event.                                         *)

TwiceCreate ==
    \E u \in Users, pids \in IdLists, aids \in IdLists :
        /\ nextId \in EventIds
        /\ CreateEvent(u, pids, TRUE, aids, NoStatus, 1, MaxTime)

TwiceDelete ==
    \E e \in EventIds :
        /\ DeleteEvent(e)
        /\ deletes' = [deletes EXCEPT
                            ![e] = IF e \in DOMAIN events THEN @ + 1 ELSE @]

NextTwice ==
    \/ TwiceCreate /\ UNCHANGED <<procs, base, users, deletes>>
    \/ DoDecide /\ UNCHANGED <<procs, base, users, deletes>>
    \/ TwiceDelete /\ UNCHANGED <<procs, base, users>>

SpecTwice == Init /\ [][NextTwice]_vars

----------------------------------------------------------------------------
(* SpecPair: two events, each created with an approver list, and the       *)
(* decide requests on them, run one after the other.                       *)

PairCreate ==
    \E u \in Users, pids \in IdLists, aids \in IdLists :
        CreateEvent(u, pids, TRUE, aids, NoStatus, 1, MaxTime)

PairDecide ==
    \E u \in Users, e \in PairIds, d \in ConcDecisions, t \in Times :
        Decide(u, e, d, "conflict", t)

NextPair ==
    \/ PairCreate /\ UNCHANGED <<procs, base, users, deletes>>
    \/ PairDecide /\ UNCHANGED <<procs, base, users, deletes>>

SpecPair == Init /\ [][NextPair]_vars

----------------------------------------------------------------------------
(* Properties *)

ParticipantsOf(ps, e) == {p[2] : p \in {x \in ps : x[1] = e}}
ApproversOf(as, e) == {k[2] : k \in {x \in DOMAIN as : x[1] = e}}

\* C1: createEvent with exactly one participant (the creator, after the
\* automatic add) and zero approver ids yields an event that is CONFIRMED
\* right after creation, with no approver rows.
C1_SoloEventConfirmed ==
    [][\A u \in Users, pids \in IdLists, given \in BOOLEAN,
          start \in Times, end \in Times :
         (/\ Len(WithCreator(pids, u)) = 1
          /\ CreateEvent(u, pids, given, <<>>, NoStatus, start, end))
         => /\ nextId \in DOMAIN events'
            /\ events'[nextId].status = CONFIRMED
            /\ ApproversOf(approvers', nextId) = {}]_vars

\* C2: createEvent with more than one participant (creator included) fails
\* with the validation error when approverIds is empty or absent, and
\* succeeds, leaving the event PENDING, when approverIds is non-empty.
C2_ApproverRequired ==
    [][\A u \in Users, pids \in IdLists, given \in BOOLEAN, aids \in IdLists,
          start \in Times, end \in Times :
         (/\ Len(WithCreator(pids, u)) > 1
          /\ CreateEvent(u, pids, given, aids, NoStatus, start, end))
         => IF ~given \/ aids = <<>>
            THEN last'.code = 400
            ELSE /\ last'.code = 201
                 /\ events'[nextId].status = PENDING]_vars

\* C3: once every approver of an event (at least one) has decided
\* "approve", in whatever order, the decide that records the last approval
\* leaves the event CONFIRMED.
C3_AllApprovedConfirms ==
    (/\ last.op = "decide"
     /\ last.code = 200
     /\ \A s \in StatusesOf(approvers, last.ev) : s = APPROVED)
    => events[last.ev].status = CONFIRMED

C3_Witness ==
    /\ last.op = "decide"
    /\ last.code = 200
    /\ Cardinality(ApproversOf(approvers, last.ev)) = 2
    /\ \A s \in StatusesOf(approvers, last.ev) : s = APPROVED
    /\ \E a, b \in ApproversOf(approvers, last.ev) :
            approvers[<<last.ev, a>>].decision_time
                < approvers[<<last.ev, b>>].decision_time
    /\ events[last.ev].status = CONFIRMED

\* C4: rejection is absorbing: a decide that leaves an approver row of the
\* event REJECTED leaves the event CANCELLED, and no decide by anyone takes a
\* CANCELLED event with a REJECTED row out of CANCELLED.
C4_RejectionAbsorbing ==
    [][\A e \in EventIds :
         (last'.op = "decide" /\ last'.ev = e /\ e \in DOMAIN events)
         => /\ (last'.code = 200 /\ REJECTED \in StatusesOf(approvers', e))
                => events'[e].status = CANCELLED
            /\ (REJECTED \in StatusesOf(approvers, e)
                    /\ events[e].status = CANCELLED)
                => /\ events'[e].status = CANCELLED
                   /\ REJECTED \in StatusesOf(approvers', e)]_vars

C4_Witness ==
    /\ last.op = "decide"
    /\ last.code = 200
    /\ \E a, b \in Users :
        /\ <<last.ev, a>> \in DOMAIN approvers
        /\ <<last.ev, b>> \in DOMAIN approvers
        /\ approvers[<<last.ev, a>>].status = REJECTED
        /\ approvers[<<last.ev, b>>].status = APPROVED
        /\ approvers[<<last.ev, a>>].decision_time
                < approvers[<<last.ev, b>>].decision_time
    /\ events[last.ev].status = CANCELLED

\* C5: a second decide by an approver who has already decided, whatever its
\* decision, answers "Already responded" (400) and changes neither the
\* approver rows nor the event.
C5_SecondDecideRefused ==
    [][\A u \in Users, e \in EventIds :
         (/\ <<e, u>> \in DOMAIN approvers
          /\ approvers[<<e, u>>].status \in {APPROVED, REJECTED}
          /\ \E d \in Decisions, r \in Reasons, t \in Times :
                Decide(u, e, d, r, t))
         => /\ last'.code = 400
            /\ UNCHANGED <<events, approvers>>]_vars

C5_Witness ==
    /\ last.op = "decide"
    /\ last.code = 400
    /\ \E u \in Users :
        /\ <<last.ev, u>> \in DOMAIN approvers
        /\ approvers[<<last.ev, u>>].status = APPROVED

\* The tables after the request of pr handled alone on the tables of b.
DecideOf(b, pr) ==
    DecideResult(b.events, b.approvers, pr.user, pr.ev, pr.d, pr.r, pr.t)

\* Event.status of e after the requests x then y, one after the other.
SerialStatus(b, x, y, e) == DecideOf(DecideOf(b, x), y).events[e].status

\* C6: two different approvers of one event deciding concurrently, their
\* queries interleaved in any way, leave Event.status as one of the two
\* serial orders leaves it: never other than CONFIRMED with every approver
\* APPROVED, never other than CANCELLED with an approver REJECTED.
C6_ConcurrentAsSerial ==
    LET x == procs["p1"]
        y == procs["p2"]
    IN  (/\ x.pc = "done" /\ y.pc = "done"
         /\ x.ev = y.ev /\ x.user # y.user
         /\ x.ev \in DOMAIN events)
        => /\ events[x.ev].status \in {SerialStatus(base, x, y, x.ev),
                                       SerialStatus(base, y, x, x.ev)}
           /\ (x.code = 200 \/ y.code = 200) =>
                /\ (\A s \in StatusesOf(approvers, x.ev) : s = APPROVED)
                        => events[x.ev].status = CONFIRMED
                /\ REJECTED \in StatusesOf(approvers, x.ev)
                        => events[x.ev].status = CANCELLED

C6_Witness ==
    LET x == procs["p1"]
        y == procs["p2"]
    IN  /\ x.pc = "done" /\ y.pc = "done"
        /\ x.ev = y.ev /\ x.user # y.user
        /\ x.code = 200 /\ y.code = 200
        /\ base.overlap
        /\ StatusesOf(base.approvers, x.ev) = {PENDING}
        /\ StatusesOf(approvers, x.ev) = {APPROVED}
        /\ events[x.ev].status = CONFIRMED

\* C7: event creation is all-or-nothing: after a createEvent that failed no
\* Event, EventParticipant or EventApprover row of that event exists.
C7_CreateAllOrNothing ==
    (last.op = "create" /\ last.code # 201)
    => /\ last.ev \notin DOMAIN events
       /\ ParticipantsOf(participants, last.ev) = {}
       /\ ApproversOf(approvers, last.ev) = {}

\* C8: deleteEvent on a CONFIRMED event is a soft delete: the row is kept
\* with status CANCELLED and its participant and approver rows are kept
\* unchanged.
C8_SoftDeleteConfirmed ==
    [][\A e \in EventIds :
         (/\ e \in DOMAIN events
          /\ events[e].status = CONFIRMED
          /\ DeleteEvent(e))
         => /\ e \in DOMAIN events'
            /\ events'[e] = [events[e] EXCEPT !.status = CANCELLED]
            /\ UNCHANGED <<participants, approvers>>]_vars

C8_Witness ==
    /\ last.op = "delete"
    /\ last.code = 204
    /\ last.ev \in DOMAIN events
    /\ events[last.ev].status = CANCELLED
    /\ ParticipantsOf(participants, last.ev) # {}
    /\ ApproversOf(approvers, last.ev) # {}

\* C9: deleteEvent on a PENDING, CANCELLED or DELETED event removes the
\* event row and leaves no EventParticipant, EventApprover, Comment or
\* Notification row that references the event.
C9_HardDeleteCascades ==
    [][\A e \in EventIds :
         (/\ e \in DOMAIN events
          /\ events[e].status \in {PENDING, CANCELLED, DELETED}
          /\ DeleteEvent(e))
         => /\ e \notin DOMAIN events'
            /\ ParticipantsOf(participants', e) = {}
            /\ ApproversOf(approvers', e) = {}
            /\ \A c \in comments' : c.event # e
            /\ \A n \in notifications' : n.event # e]_vars

C9_Witness ==
    /\ last.op = "delete"
    /\ last.code = 204
    /\ last.ev \notin DOMAIN events
    /\ nextComment > 1
    /\ comments = {}
    /\ participants = {}
    /\ approvers = <<>>

\* C10: decide by a user who has no EventApprover row for the event answers
\* "Not an approver" (403) and leaves every approver row and the event's
\* status unchanged.
C10_NotAnApprover ==
    [][\A u \in Users, e \in EventIds :
         (/\ <<e, u>> \notin DOMAIN approvers
          /\ \E d \in Decisions, r \in Reasons, t \in Times :
                Decide(u, e, d, r, t))
         => /\ last'.code = 403
            /\ UNCHANGED <<events, approvers>>]_vars

C10_Witness ==
    /\ last.op = "decide"
    /\ last.code = 403
    /\ last.ev \in DOMAIN events
    /\ \E a \in ApproversOf(approvers, last.ev) :
            approvers[<<last.ev, a>>].status = PENDING

\* C11: deleting a comment is allowed iff the actor is the comment's author
\* or the creator of the comment's event; any other actor, also when the
\* event's creator is null, is answered 403 and the comment is still there.
C11_CommentDeletePolicy ==
    [][\A u \in Accounts, id \in CommentIds, c \in comments :
         (c.id = id /\ u \in users /\ DeleteComment(u, id))
         => IF u = c.author \/ u = events[c.event].creator
            THEN last'.code = 204 /\ c \notin comments'
            ELSE last'.code = 403 /\ comments' = comments]_vars

\* A delete was refused on a comment whose event has lost its creator.
C11_Witness ==
    /\ last.op = "uncomment"
    /\ last.code = 403
    /\ \E c \in comments :
            c.event = last.ev /\ events[c.event].creator = NoUser

\* C12: a valid decide that changes the event's status to CONFIRMED or
\* CANCELLED creates exactly one APPROVAL_RESULT notification, addressed to
\* the event's creator; a valid decide that leaves the status as it was
\* creates none.
C12_ApprovalResultNotified ==
    [][\A u \in Users, e \in DOMAIN events, d \in Decisions, r \in Reasons,
          t \in Times :
         (Decide(u, e, d, r, t) /\ last'.code = 200)
         => LET new == {n \in notifications' \ notifications :
                            n.type = APPROVAL_RESULT}
            IN  IF /\ events'[e].status # events[e].status
                   /\ events'[e].status \in {CONFIRMED, CANCELLED}
                THEN \E n \in new : /\ new = {n}
                                     /\ n.recipient = events[e].creator
                                     /\ n.event = e
                ELSE new = {}]_vars

\* C13: a successful createEvent leaves one EVENT_CREATED notification for
\* each participant of the new event and one APPROVAL_REQUEST notification
\* for each of its approvers, each referencing the event.
C13_CreateNotifies ==
    [][\A u \in Users, pids \in IdLists, given \in BOOLEAN, aids \in IdLists,
          start \in Times, end \in Times :
         (/\ CreateEvent(u, pids, given, aids, NoStatus, start, end)
          /\ last'.code = 201)
         => /\ \A p \in ParticipantsOf(participants', nextId) :
                    [recipient |-> p, event |-> nextId, type |-> EVENT_CREATED]
                        \in notifications'
            /\ \A a \in ApproversOf(approvers', nextId) :
                    [recipient |-> a, event |-> nextId,
                     type |-> APPROVAL_REQUEST] \in notifications']_vars

\* C14: CANCELLED and DELETED are terminal: whatever operation runs (decide,
\* deleteEvent, the update endpoint), an event row whose status is CANCELLED
\* or DELETED never has status PENDING or CONFIRMED afterwards.
C14_TerminalStatuses ==
    [][\A e \in DOMAIN events \cap DOMAIN events' :
         events[e].status \in {CANCELLED, DELETED}
         => events'[e].status \notin {PENDING, CONFIRMED}]_vars

RowStatuses(as, e) == {as[k].status : k \in {x \in DOMAIN as : x[1] = e}}

C16_ApproverDecidesOnce ==
    [][/\ \A k \in DOMAIN approvers \cap DOMAIN approvers' :
            approvers[k].status # PENDING
            => approvers'[k].status = approvers[k].status
       /\ \A e \in DOMAIN events \cap DOMAIN events' :
            ~(events[e].status = CONFIRMED /\ events'[e].status = CANCELLED)
      ]_vars

Range(ids) == {ids[i] : i \in 1..Len(ids)}

\* The step is a createEvent by u with these id lists (the status and the
\* instants of the request are those of the stored row).
Requested(u, pids, given, aids) ==
    /\ nextId' = nextId + 1
    /\ \E st \in {NoStatus, events'[nextId].status} :
            CreateEvent(u, pids, given, aids, st,
                        events'[nextId].start_time, events'[nextId].end_time)

\* The step is a createEvent answered 201.
Created(u, pids, given, aids) ==
    Requested(u, pids, given, aids) /\ last'.code = 201

\* Neither a decide nor a soft delete adds or removes approver rows.
ApproverRowsKept ==
    \/ DOMAIN approvers' = DOMAIN approvers
    \/ /\ ~\E u \in Users, e \in EventIds, d \in Decisions, r \in Reasons,
              t \in Times : Decide(u, e, d, r, t)
       /\ ~\E e \in DOMAIN events :
              IsSoftDelete(events[e].status) /\ DeleteEvent(e)

ParticipantRowsKept ==
    \/ participants' = participants
    \/ /\ ~\E u \in Users, e \in EventIds, d \in Decisions, r \in Reasons,
              t \in Times : Decide(u, e, d, r, t)
       /\ ~\E e \in DOMAIN events :
              IsSoftDelete(events[e].status) /\ DeleteEvent(e)

\* C18: the event left by a successful createEvent has a participant row
\* for its creator, whether or not the creator's id was among the supplied
\* participant ids, and no decide or soft delete removes it.
C18_CreatorParticipates ==
    [][/\ nextId' = nextId
          \/ \A u \in Users, pids \in IdLists, given \in BOOLEAN,
                aids \in IdLists :
            Created(u, pids, given, aids)
            => /\ events'[nextId].creator = u
               /\ <<nextId, u>> \in participants'
       /\ ParticipantRowsKept]_vars

\* A successful createEvent has stored the creator's row next to another
\* participant's.
C18_Witness ==
    /\ last.op = "create"
    /\ last.code = 201
    /\ <<last.ev, events[last.ev].creator>> \in participants
    /\ ParticipantsOf(participants, last.ev) = Users

\* C19: createEvent with an end instant before the start instant is
\* refused and writes nothing, so every stored event has
\* end_time >= start_time.
C19_EndNotBeforeStart ==
    \A e \in DOMAIN events : events[e].end_time >= events[e].start_time

HasDup(ids) == Cardinality(Range(ids)) < Len(ids)

\* C20: createEvent with a user id repeated in participantIds or
\* approverIds succeeds (unless the distinct participants are more than one
\* and no approver is given) and stores one participant row per distinct
\* participant id and one approver row per distinct approver id.
C20_IdListsDeduplicated ==
    [][\/ nextId' = nextId
       \/ \A u \in Users, pids \in IdLists, given \in BOOLEAN,
             aids \in IdLists :
            (/\ HasDup(pids) \/ HasDup(ApproverIdsOf(given, aids))
             /\ Requested(u, pids, given, aids))
            => LET P == Range(pids) \cup {u}
                   A == Range(ApproverIdsOf(given, aids))
               IN  IF Cardinality(P) > 1 /\ A = {}
                   THEN last'.code = 400
                   ELSE /\ last'.code = 201
                        /\ ParticipantsOf(participants', nextId) = P
                        /\ Cardinality(P) > 1
                           => ApproversOf(approvers', nextId) = A]_vars

\* C21: a valid decide changes only the caller's own approver row and
\* possibly the status of that row's event: every other approver row of the
\* event (status, decision_time, rejection_reason) and every row of every
\* other event stay as they were.
C21_DecideFrame ==
    [][\/ last'.code # 200
       \/ \A u \in Users, e \in PairIds, d \in Decisions, r \in Reasons,
             t \in Times :
            (Decide(u, e, d, r, t) /\ last'.code = 200)
            => /\ DOMAIN approvers' = DOMAIN approvers
               /\ \A k \in DOMAIN approvers :
                    k # <<e, u>> => approvers'[k] = approvers[k]
               /\ DOMAIN events' = DOMAIN events
               /\ \A x \in DOMAIN events :
                    x # e => events'[x] = events[x]
               /\ events'[e] = [events[e] EXCEPT !.status = events'[e].status]
               /\ UNCHANGED <<participants, comments, notifications>>]_vars

\* A rejection has been recorded next to another approver's APPROVED row,
\* while a second event has approver rows of its own.
C21_Witness ==
    /\ last.op = "decide"
    /\ last.code = 200
    /\ last.ev \in DOMAIN events
    /\ {APPROVED, REJECTED} \subseteq RowStatuses(approvers, last.ev)
    /\ \E x \in DOMAIN events :
            x # last.ev /\ ApproversOf(approvers, x) # {}

\* C22: decide accepts only "approve" and "reject": a request of a PENDING
\* approver with any other (or no) decision is refused as invalid input and
\* leaves the approver row PENDING and the event's status as it was.
C22_OnlyApproveOrReject ==
    [][\A u \in Users, e \in EventIds, d \in Decisions \ ConcDecisions,
          r \in Reasons, t \in Times :
         (/\ <<e, u>> \in DOMAIN approvers
          /\ approvers[<<e, u>>].status = PENDING
          /\ Decide(u, e, d, r, t))
         => /\ last'.code = 400
            /\ approvers' = approvers
            /\ events' = events]_vars

\* C24: a soft delete is not permanent: of two successive deleteEvent calls
\* on a CONFIRMED event the first sets its status to CANCELLED and the
\* second removes the row with its participant and approver rows, so the
\* event no longer exists after the second call.
C24_SecondDeleteRemoves ==
    [][\A e \in EventIds :
         (e \in DOMAIN events /\ DeleteEvent(e))
         => /\ (deletes[e] = 0 /\ events[e].status = CONFIRMED)
                => /\ e \in DOMAIN events'
                   /\ events'[e].status = CANCELLED
            /\ deletes[e] = 1
                => /\ e \notin DOMAIN events'
                   /\ ParticipantsOf(participants', e) = {}
                   /\ ApproversOf(approvers', e) = {}]_vars

\* The second deleteEvent call on an event has been answered and the event
\* is gone.
C24_Witness ==
    \E e \in EventIds :
        /\ deletes[e] = 2
        /\ last = [op |-> "delete", ev |-> e, code |-> 204]
        /\ e \notin DOMAIN events
        /\ ParticipantsOf(participants, e) = {}
        /\ ApproversOf(approvers, e) = {}

\* deleteEvent of e on the tables of b, run to completion: the tables after
\* it and its response.
DeleteOf(b, e) ==
    IF e \notin DOMAIN b.events
    THEN [events |-> b.events, approvers |-> b.approvers, code |-> 404]
    ELSE IF IsSoftDelete(b.events[e].status)
    THEN [events |-> SoftDeleted(b.events, e), approvers |-> b.approvers,
          code |-> 204]
    ELSE [events |-> HardDeleted(b.events, e),
          approvers |-> CascadeApprovers(b.approvers, e), code |-> 204]

\* The outcomes of the decide x and the deleteEvent of e run one after the
\* other, in either order: the tables left and whether each succeeded.
SerialOutcomes(b, x, e) ==
    LET d1 == DecideOf(b, x)
        r1 == DeleteOf(d1, e)
        r2 == DeleteOf(b, e)
        d2 == DecideOf(r2, x)
    IN  {[events |-> r1.events, approvers |-> r1.approvers,
          decided |-> d1.code = 200, deleted |-> r1.code = 204],
         [events |-> d2.events, approvers |-> d2.approvers,
          decided |-> d2.code = 200, deleted |-> r2.code = 204]}

\* The request x is the approval that was the last one outstanding on
\* event e when the batch began.
LastApproval(b, x, e) ==
    /\ x.ev = e
    /\ x.d = "approve"
    /\ e \in DOMAIN b.events
    /\ b.events[e].status = PENDING
    /\ <<e, x.user>> \in DOMAIN b.approvers
    /\ \A k \in DOMAIN b.approvers :
            k[1] = e => b.approvers[k].status =
                            IF k[2] = x.user THEN PENDING ELSE APPROVED

\* C23: a deleteEvent that runs concurrently with the decide recording the
\* last outstanding approval ends as one of the two serial orders ends: the
\* event kept with status CANCELLED after a successful decide, or the event
\* removed and the decide answered with an error; a CONFIRMED event is
\* never removed and no decide succeeds on a removed event.
C23_DeleteRaceAsSerial ==
    LET x == procs["p1"]
        y == procs["p2"]
    IN  (/\ x.pc = "done" /\ y.pc = "done"
         /\ LastApproval(base, x, y.ev))
        => [events |-> events, approvers |-> approvers,
            decided |-> x.code = 200, deleted |-> y.code = 204]
                \in SerialOutcomes(base, x, y.ev)

====
